---------------------------- MODULE Spec2Model ----------------------------
(***************************************************************************)
(* IntelliMark: the Cluster Synthesis Engine (ClusteringService), the      *)
(* summarize endpoint (generateSummary) with its batch of fetches, its     *)
(* summarization client and its Summary Writer, and the two fetchers.      *)
(*                                                                         *)
(* A string is a sequence of one-character strings, so that trim() and the *)
(* Set-based de-duplication of raw strings are computed as the code        *)
(* computes them.  A timestamp is a number of clock ticks since the epoch. *)
(***************************************************************************)
EXTENDS Integers, Sequences, FiniteSets, TLC

VARIABLES
    bookmarks,  \* the client's in-memory bookmark list (BookmarkContext state)
    now,        \* the clock read by clusterByDate (new Date())
    method,     \* the clusteringMethod of the last createClusters call
    clusters,   \* the list returned by the last createClusters call
    store,      \* the server's bookmark table, in insertion order
    envKey,     \* whether OPENAI_API_KEY is configured on the server
    net,        \* what the reader endpoint answers for each bookmark's url
    aiReply,    \* what the language model answers to each request
    pc,         \* per request: its position in generateSummary
    req,        \* per request: the summarize request as received
    validBookmarks, \* per request: the bookmarks found for bookmarkIds
    outcomes,   \* per request: the Promise.allSettled slots, one per valid bookmark
    aiResult,   \* per request: the SummaryResponse of the summarization client
    resp,       \* per request: the HTTP response sent
    fetchLog,   \* the network requests made by the fetchers, in order
    aiCalls,    \* per request: the contents given to the summarization client
    extracted,  \* the outcome of the last call of a fetcher on its own
    expandedCluster,     \* ClustersScreen state: the id of the cluster shown in the modal
    selectedBookmarks,   \* ClustersScreen state: the ids selected, in insertion order
    isGeneratingSummary, \* ClustersScreen state: the loading flag of the Summary button
    alerts,     \* the native alerts shown and not yet dismissed, oldest first
    tokenWait,  \* the call of handleGenerateSummary that awaits getToken
    awaiting,   \* the summarize requests the screen awaits the response of
    route,      \* the screen the router shows
    tokensStored, \* APIService: the tokens kept in AsyncStorage
    stack,      \* APIService: the requests of the axios instance that await an answer
    delivery,   \* APIService: the outcome a settled request hands to the one that awaits it
    sentLog,    \* APIService: the requests sent to the server, in order
    apiOutcome  \* APIService: how the call of the caller ended

vars == <<bookmarks, now, method, clusters, store, envKey, net, aiReply,
          pc, req, validBookmarks, outcomes, aiResult, resp,
          fetchLog, aiCalls, extracted,
          expandedCluster, selectedBookmarks, isGeneratingSummary,
          alerts, tokenWait, awaiting, route,
          tokensStored, stack, delivery, sentLog, apiOutcome>>

\* the state of the API client
authVars == <<tokensStored, stack, delivery, sentLog, apiOutcome>>

\* the state of the clusters screen
screenVars == <<expandedCluster, selectedBookmarks, isGeneratingSummary,
                alerts, tokenWait, awaiting, route>>

\* what is observed of the outside world's side of the program
observed == <<fetchLog, aiCalls, extracted>>

(***************************************************************************)
(* Bounds of the model.                                                    *)
(***************************************************************************)
\* the longest bookmark list given to createClusters
MaxBookmarks == 3
\* the most bookmarks in the store when a summarize request arrives
MaxSources == 2
\* the resolution of the clock: a timestamp is a number of ticks, a
\* millisecond timestamp that is a multiple of 1000 / TicksPerSecond
TicksPerSecond == 4

(***************************************************************************)
(* Program constants.                                                      *)
(***************************************************************************)
\* 1000 * 60 * 60 * 24 milliseconds, and the second Date.toString() rounds to
OneSecond == TicksPerSecond
OneDay == OneSecond * 60 * 60 * 24
PaletteSize == 10
MinGroupSize == 2
MinContentChars == 200
MaxContentChars == 8000

Whitespace == {" ", "\t"}
AiSummaryTag == <<"a", "i", "-", "s", "u", "m", "m", "a", "r", "y">>
dateOrder == <<"today", "yesterday", "this-week", "this-month", "this-quarter", "older">>
Methods == {"date", "category", "auto"}
NotCalled == "none"
Pending == [status |-> "pending"]
NoResp == [status |-> 0]
NoResult == [kind |-> "none"]

(***************************************************************************)
(* String.prototype.trim                                                   *)
(***************************************************************************)
RECURSIVE trimStart(_)
trimStart(s) ==
    IF s = <<>> THEN s
    ELSE IF Head(s) \in Whitespace THEN trimStart(Tail(s)) ELSE s

RECURSIVE trimEnd(_)
trimEnd(s) ==
    IF s = <<>> THEN s
    ELSE IF s[Len(s)] \in Whitespace THEN trimEnd(SubSeq(s, 1, Len(s) - 1)) ELSE s

trim(s) == trimEnd(trimStart(s))

(***************************************************************************)
(* category.toLowerCase().replace(/\s+/g, '-')                             *)
(***************************************************************************)
LowerOf(ch) ==
    CASE ch = "A" -> "a"
      [] ch = "B" -> "b"
      [] OTHER -> ch

RECURSIVE slug(_)
slug(s) ==
    IF s = <<>> THEN <<>>
    ELSE IF Head(s) \in Whitespace
         THEN <<"-">> \o slug(trimStart(s))
         ELSE <<LowerOf(Head(s))>> \o slug(Tail(s))

(***************************************************************************)
(* Array.prototype.sort with (a, b) => b.createdAt - a.createdAt: a stable *)
(* sort, newest first.                                                     *)
(***************************************************************************)
\* the comparator with its operands exchanged: oldest first
RECURSIVE InsertOldestFirst(_, _)
InsertOldestFirst(sorted, b) ==
    IF sorted = <<>> THEN <<b>>
    ELSE IF Head(sorted).createdAt - b.createdAt > 0
         THEN <<b>> \o sorted
         ELSE <<Head(sorted)>> \o InsertOldestFirst(Tail(sorted), b)

RECURSIVE InsertNewestFirst(_, _)
InsertNewestFirst(sorted, b) ==
    IF sorted = <<>> THEN <<b>>
    ELSE IF b.createdAt - Head(sorted).createdAt > 0
         THEN <<b>> \o sorted
         ELSE <<Head(sorted)>> \o InsertNewestFirst(Tail(sorted), b)

RECURSIVE SortNewestFirst(_)
SortNewestFirst(list) ==
    IF list = <<>> THEN <<>>
    ELSE InsertNewestFirst(SortNewestFirst(SubSeq(list, 1, Len(list) - 1)), list[Len(list)])

(***************************************************************************)
(* Array.prototype.sort with (a, b) => b.bookmarks.length -                *)
(* a.bookmarks.length: a stable sort, largest cluster first.               *)
(***************************************************************************)
\* a sort that is not stable: an equal cluster is put first
RECURSIVE InsertLargestFirstUnstable(_, _)
InsertLargestFirstUnstable(sorted, c) ==
    IF sorted = <<>> THEN <<c>>
    ELSE IF Len(c.bookmarks) - Len(Head(sorted).bookmarks) >= 0
         THEN <<c>> \o sorted
         ELSE <<Head(sorted)>> \o InsertLargestFirstUnstable(Tail(sorted), c)

RECURSIVE InsertLargestFirst(_, _)
InsertLargestFirst(sorted, c) ==
    IF sorted = <<>> THEN <<c>>
    ELSE IF Len(c.bookmarks) - Len(Head(sorted).bookmarks) > 0
         THEN <<c>> \o sorted
         ELSE <<Head(sorted)>> \o InsertLargestFirst(Tail(sorted), c)

RECURSIVE SortLargestFirst(_)
SortLargestFirst(list) ==
    IF list = <<>> THEN <<>>
    ELSE InsertLargestFirst(SortLargestFirst(SubSeq(list, 1, Len(list) - 1)), list[Len(list)])

(***************************************************************************)
(* Map<string, BookmarkData[]>: the entries in insertion order.            *)
(***************************************************************************)
GroupHas(groups, key) == \E i \in 1..Len(groups) : groups[i].key = key

GroupGet(groups, key) ==
    IF GroupHas(groups, key)
    THEN groups[CHOOSE i \in 1..Len(groups) : groups[i].key = key].list
    ELSE <<>>

GroupPush(groups, key, b) ==
    IF GroupHas(groups, key)
    THEN [i \in 1..Len(groups) |->
            IF groups[i].key = key
            THEN [groups[i] EXCEPT !.list = Append(@, b)]
            ELSE groups[i]]
    ELSE Append(groups, [key |-> key, list |-> <<b>>])

(***************************************************************************)
(* ClusteringService.clusterByDate                                         *)
(***************************************************************************)
daysDiff(b, t) == (t - b.createdAt) \div OneDay

\* the week's threshold taken strictly
dateKeyStrictWeek(d) ==
    IF d = 0 THEN "today"
    ELSE IF d = 1 THEN "yesterday"
    ELSE IF d < 7 THEN "this-week"
    ELSE IF d <= 30 THEN "this-month"
    ELSE IF d <= 90 THEN "this-quarter"
    ELSE "older"

dateKey(d) ==
    IF d = 0 THEN "today"
    ELSE IF d = 1 THEN "yesterday"
    ELSE IF d <= 7 THEN "this-week"
    ELSE IF d <= 30 THEN "this-month"
    ELSE IF d <= 90 THEN "this-quarter"
    ELSE "older"

RECURSIVE dateGroups(_, _)
dateGroups(list, t) ==
    IF list = <<>> THEN <<>>
    ELSE LET b == list[Len(list)]
         IN  GroupPush(dateGroups(SubSeq(list, 1, Len(list) - 1), t),
                       dateKey(daysDiff(b, t)), b)

\* the category strategy's threshold applied to the date buckets
DateGroupEmittedFromTwo(bookmarkList) == Len(bookmarkList) >= MinGroupSize

DateGroupEmitted(bookmarkList) == Len(bookmarkList) >= 1

RECURSIVE dateClusters(_, _)
dateClusters(groups, k) ==
    IF k = 0 THEN <<>>
    ELSE LET prev == dateClusters(groups, k - 1)
             bookmarkList == GroupGet(groups, dateOrder[k])
         IN  IF DateGroupEmitted(bookmarkList)
             THEN Append(prev,
                         [id        |-> <<"date-", dateOrder[k]>>,
                          type      |-> "date",
                          metadata  |-> [dateRange |-> dateOrder[k], keywords |-> <<>>],
                          bookmarks |-> SortNewestFirst(bookmarkList),
                          color     |-> Len(prev) % PaletteSize])
             ELSE prev

clusterByDate(list, t) == dateClusters(dateGroups(list, t), Len(dateOrder))

(***************************************************************************)
(* ClusteringService.clusterByCategory                                     *)
(***************************************************************************)
RECURSIVE pushCategories(_, _, _)
pushCategories(groups, b, k) ==
    IF k = 0 THEN groups
    ELSE LET prev == pushCategories(groups, b, k - 1)
             normalizedCategory == trim(b.categories[k])
         IN  IF normalizedCategory # <<>>
             THEN GroupPush(prev, normalizedCategory, b)
             ELSE prev

RECURSIVE categoryGroups(_)
categoryGroups(list) ==
    IF list = <<>> THEN <<>>
    ELSE LET b == list[Len(list)]
         IN  pushCategories(categoryGroups(SubSeq(list, 1, Len(list) - 1)),
                            b, Len(b.categories))

\* the duplicates kept
keepAllBookmarks(bookmarkList) == bookmarkList

\* Array.from(new Map(bookmarkList.map(b => [b.id, b])).values())
RECURSIVE uniqueBookmarks(_)
uniqueBookmarks(bookmarkList) ==
    IF bookmarkList = <<>> THEN <<>>
    ELSE LET prev == uniqueBookmarks(SubSeq(bookmarkList, 1, Len(bookmarkList) - 1))
             b == bookmarkList[Len(bookmarkList)]
         IN  IF \E i \in 1..Len(prev) : prev[i].id = b.id
             THEN [i \in 1..Len(prev) |-> IF prev[i].id = b.id THEN b ELSE prev[i]]
             ELSE Append(prev, b)

CategoryGroupEmitted(bookmarkList) == Len(bookmarkList) >= MinGroupSize

RECURSIVE categoryClusters(_, _)
categoryClusters(groups, k) ==
    IF k = 0 THEN <<>>
    ELSE LET prev == categoryClusters(groups, k - 1)
             category == groups[k].key
             bookmarkList == groups[k].list
         IN  IF CategoryGroupEmitted(bookmarkList)
             THEN Append(prev,
                         [id        |-> <<"category-">> \o slug(category),
                          type      |-> "category",
                          metadata  |-> [dateRange |-> "", keywords |-> <<category>>],
                          bookmarks |-> SortNewestFirst(uniqueBookmarks(bookmarkList)),
                          color     |-> Len(prev) % PaletteSize])
             ELSE prev

clusterByCategory(list) ==
    IF Len(list) = 0 THEN <<>>
    ELSE LET groups == categoryGroups(list)
         IN  SortLargestFirst(categoryClusters(groups, Len(groups)))

(***************************************************************************)
(* ClusteringService.autoCluster and createClusters                        *)
(***************************************************************************)
\* the two lists joined without the final sort
autoClusterUnsorted(list, t) == clusterByCategory(list) \o clusterByDate(list, t)

autoCluster(list, t) ==
    SortLargestFirst(clusterByCategory(list) \o clusterByDate(list, t))

\* the argument sorted where it stands
bookmarksSortedInPlace(list, m, t) == SortNewestFirst(list)

\* the array given to createClusters, after the call: it is read with forEach;
\* every sort() is applied to an array the call has made itself (a group of the
\* Map, uniqueBookmarks, clusters, allClusters), none to the argument
bookmarksArgument(list, m, t) == list

createClusters(list, m, t) ==
    IF Len(list) = 0 THEN <<>>
    ELSE CASE m = "date" -> clusterByDate(list, t)
           [] m = "category" -> clusterByCategory(list)
           [] OTHER -> autoCluster(list, t)

(***************************************************************************)
(* The bookmark store (BookmarkService over the bookmark table).           *)
(***************************************************************************)
\* prisma.bookmark.findFirst({ where: { id, userId } }): null when not found
getBookmark(table, id) ==
    IF \E i \in 1..Len(table) : table[i].id = id
    THEN <<table[CHOOSE i \in 1..Len(table) : table[i].id = id]>>
    ELSE <<>>

\* findMany({ orderBy: { createdAt: 'desc' } }): the table newest first; the
\* order of rows with equal createdAt is the insertion order here.
getBookmarks(table) == SortNewestFirst(table)

\* Date.prototype.toString(): a text with the date to the second, the
\* fraction of the second is not written.  The text is modelled by the second
\* it names.
DateToString(ms) == ms \div OneSecond

\* new Date(text): the instant the text names
ParseDate(text) == text * OneSecond

\* BookmarkService.createBookmarkWithDate(userId, data, createdAt): the row is
\* written with the timestamp the caller supplies.
createBookmarkWithDate(table, data, createdAtText) ==
    Append(table,
           [id         |-> Len(table) + 1,
            url        |-> data.url,
            title      |-> data.title,
            categories |-> data.categories,
            createdAt  |-> ParseDate(createdAtText)])

(***************************************************************************)
(* extractContentViaAPI(url, title): the outcome of one fetch task, given  *)
(* what the reader endpoint answers.                                       *)
(***************************************************************************)
extractContentViaAPI(b, answer) ==
    IF answer.kind = "throw"
    THEN [status |-> "rejected", reason |-> "network"]
    ELSE IF ~answer.ok
    THEN [status |-> "rejected", reason |-> "http"]
    ELSE IF answer.len < MinContentChars
    THEN [status |-> "rejected", reason |-> "insufficient"]
    ELSE [status |-> "fulfilled",
          value  |-> [id    |-> b.id,
                      url   |-> b.url,
                      title |-> b.title,
                      len   |-> IF answer.len < MaxContentChars
                                THEN answer.len ELSE MaxContentChars]]

\* fetch(`https://r.jina.ai/${encodeURIComponent(url)}`): the first statement
\* of extractContentViaAPI, made for every url
readerRequests(url) == <<[fetcher |-> "reader", url |-> url]>>

(***************************************************************************)
(* ContentExtractorService.extractContent(url): the direct fetcher.  A url *)
(* is a sequence of text fragments; answer.len is the length of the        *)
(* cleaned text of the page.                                               *)
(***************************************************************************)
MinCleanChars == 100

\* new URL(url) does not throw
UrlParses(url) == Len(url) >= 2 /\ url[1] \in {"https://", "http://"}

\* url.toLowerCase(), fragment by fragment
LowerFragment(frag) == IF frag = ".PDF" THEN ".pdf" ELSE frag

\* url.toLowerCase().includes('.pdf')
includesPdf(url) == \E i \in 1..Len(url) : LowerFragment(url[i]) = ".pdf"

\* the format test left out
passesEveryFormat(url) == FALSE

\* the guard of the throw before axios.get
rejectsFormat(url) == includesPdf(url)

\* axios.get(url, ...) is reached
directRequests(url) ==
    IF ~UrlParses(url) THEN <<>>
    ELSE IF rejectsFormat(url) THEN <<>>
    ELSE <<[fetcher |-> "direct", url |-> url]>>

extractContent(url, answer) ==
    IF ~UrlParses(url)
    THEN [status |-> "rejected", reason |-> "invalid-url"]
    ELSE IF rejectsFormat(url)
    THEN [status |-> "rejected", reason |-> "pdf"]
    ELSE IF answer.kind = "throw"
    THEN [status |-> "rejected", reason |-> "network"]
    ELSE IF ~answer.ok
    THEN [status |-> "rejected", reason |-> "http"]
    ELSE IF answer.len < MinCleanChars
    THEN [status |-> "rejected", reason |-> "insufficient"]
    ELSE [status |-> "fulfilled",
          value  |-> [id    |-> 0,
                      url   |-> url,
                      title |-> <<"Untitled">>,
                      len   |-> answer.len]]

(***************************************************************************)
(* AIService: the constructor never throws, withApiKey checks the prefix,  *)
(* generateSummary needs an OpenAI client.                                 *)
(***************************************************************************)
NewAIService(hasKey) == [openai |-> hasKey]

\* apiKey.startsWith('sk-')
KeyWellFormed(apiKey) == apiKey = "sk-ok"

\* a string value: its text and its length; other JSON values have another type
Text(body, len) == [type |-> "string", body |-> body, len |-> len]

MaxFallbackChars == 1000
Sentiments == {"positive", "neutral", "negative"}

\* String.prototype.slice(0, end)
slice(text, end) == [text EXCEPT !.len = IF @ < end THEN @ ELSE end]

\* the value is truthy: the left operand of || is kept
Truthy(v) == ~(v.type = "missing" \/ (v.type = "string" /\ v.len = 0))

(***************************************************************************)
(* The text of a completion, as far as the pattern of parseAIResponse and  *)
(* JSON.parse look at it: a sequence of "{", "}", a member "summary": ...  *)
(* with its separator ("s1" and "s2", two values), a key that awaits an    *)
(* object value ("k"), and prose ("t").                                    *)
(***************************************************************************)
SummaryMembers == {"s1", "s2"}
NoMatch == <<>>

\* response.match(/\{[\s\S]*\}/): the quantifier is greedy, the match runs from
\* the first "{" to the last "}" after it
jsonMatch(response) ==
    LET opens == {i \in 1..Len(response) : response[i] = "{"}
        first == CHOOSE i \in opens : \A j \in opens : i <= j
        closes == {i \in 1..Len(response) : response[i] = "}" /\ i > first}
        last == CHOOSE i \in closes : \A j \in closes : i >= j
    IN  IF opens = {} THEN NoMatch
        ELSE IF closes = {} THEN NoMatch
        ELSE SubSeq(response, first, last)

\* the grammar of JSON.parse for an object: "{" members "}", a member being a
\* summary or a key with an object; the position of the closing "}", 0 if none
RECURSIVE objectEnd(_, _)
RECURSIVE membersEnd(_, _)
membersEnd(t, i) ==
    IF i > Len(t) THEN 0
    ELSE IF t[i] = "}" THEN i
    ELSE IF t[i] \in SummaryMembers THEN membersEnd(t, i + 1)
    ELSE IF t[i] = "k"
         THEN LET e == objectEnd(t, i + 1)
              IN  IF e = 0 THEN 0 ELSE membersEnd(t, e + 1)
    ELSE 0

objectEnd(t, i) ==
    IF i <= Len(t) /\ t[i] = "{" THEN membersEnd(t, i + 1) ELSE 0

\* parsed.summary of a well-formed object: its last member "summary", "" if none
RECURSIVE summaryMember(_, _, _)
summaryMember(t, i, found) ==
    IF t[i] = "}" THEN found
    ELSE IF t[i] \in SummaryMembers THEN summaryMember(t, i + 1, t[i])
    ELSE summaryMember(t, objectEnd(t, i + 1) + 1, found)

\* JSON.parse(jsonMatch[0]): the whole text is one value, or it throws
JSONparse(text) ==
    IF Len(text) > 0 /\ objectEnd(text, 1) = Len(text)
    THEN [ok |-> TRUE, summary |-> summaryMember(text, 2, "")]
    ELSE [ok |-> FALSE]

\* the try block up to JSON.parse over a completion given as text: "json" with
\* the members of the object parsed, "text" when there is no match or
\* JSON.parse throws
matchedReply(reply) ==
    IF reply.kind # "raw" THEN reply
    ELSE LET parsed == JSONparse(jsonMatch(reply.raw.body))
         IN  IF parsed.ok
             THEN [kind       |-> "json",
                   raw        |-> reply.raw,
                   summary    |-> IF parsed.summary = ""
                                  THEN [type |-> "missing", body |-> "", len |-> 0]
                                  ELSE Text(parsed.summary, 1),
                   keyPoints  |-> <<>>,
                   categories |-> <<>>,
                   sentiment  |-> ""]
             ELSE [kind |-> "text", raw |-> reply.raw]

\* the fallback without its slice
parseAIResponseUnsliced(reply) ==
    IF reply.kind = "json"
    THEN [kind       |-> "parsed",
          summary    |-> IF Truthy(reply.summary) THEN reply.summary
                         ELSE Text("Summary not available", 21),
          keyPoints  |-> reply.keyPoints,
          categories |-> reply.categories,
          sentiment  |-> IF reply.sentiment \in Sentiments THEN reply.sentiment
                         ELSE "neutral"]
    ELSE [kind       |-> "fallback",
          summary    |-> reply.raw,
          keyPoints  |-> <<>>,
          categories |-> <<>>,
          sentiment  |-> "neutral"]

\* AIService.parseAIResponse: reply.kind is "json" when the pattern matches and
\* JSON.parse returns; the catch takes every other reply
parseAIResponse(reply) ==
    LET parsed == matchedReply(reply)
    IN  IF parsed.kind = "json"
        THEN [kind       |-> "parsed",
              summary    |-> IF Truthy(parsed.summary) THEN parsed.summary
                             ELSE Text("Summary not available", 21),
              keyPoints  |-> parsed.keyPoints,
              categories |-> parsed.categories,
              sentiment  |-> IF parsed.sentiment \in Sentiments THEN parsed.sentiment
                             ELSE "neutral"]
        ELSE [kind       |-> "fallback",
              summary    |-> slice(reply.raw, MaxFallbackChars),
              keyPoints  |-> <<>>,
              categories |-> <<>>,
              sentiment  |-> "neutral"]

\* AIService.generateSummary: a SummaryResponse, or "throws"
aiGenerateSummary(service, contents, reply) ==
    IF ~service.openai THEN [kind |-> "throws"]
    ELSE IF Len(contents) = 0 THEN [kind |-> "throws"]
    ELSE IF reply.kind \in {"error", "empty"} THEN [kind |-> "throws"]
    ELSE LET parsed == parseAIResponse(reply)
         IN  \* parsed.summary.split(' ') of a value that is not a string
             IF parsed.summary.type # "string" THEN [kind |-> "throws"]
             ELSE parsed

(***************************************************************************)
(* generateSummary: the Summary Writer's derived metadata.                 *)
(***************************************************************************)
\* validBookmarks.flatMap(b => b.categories || [])
RECURSIVE allSourceCategories(_)
allSourceCategories(valid) ==
    IF valid = <<>> THEN <<>>
    ELSE Head(valid).categories \o allSourceCategories(Tail(valid))

\* [...new Set(list)]: the distinct strings, in first-seen order
RECURSIVE uniqueStrings(_)
uniqueStrings(list) ==
    IF list = <<>> THEN <<>>
    ELSE LET prev == uniqueStrings(SubSeq(list, 1, Len(list) - 1))
             x == list[Len(list)]
         IN  IF \E i \in 1..Len(prev) : prev[i] = x THEN prev ELSE Append(prev, x)

\* the model's suggested categories added to the sources'
summaryCategoriesWithSuggested(valid, ai) ==
    <<AiSummaryTag>> \o uniqueStrings(allSourceCategories(valid) \o ai.categories)

summaryCategories(valid, ai) ==
    <<AiSummaryTag>> \o uniqueStrings(allSourceCategories(valid))

\* validBookmarks.reduce((latest, current) =>
\*     new Date(current.createdAt) > new Date(latest.createdAt) ? current : latest)
RECURSIVE reduceMostRecent(_, _)
reduceMostRecent(latest, rest) ==
    IF rest = <<>> THEN latest
    ELSE reduceMostRecent(IF Head(rest).createdAt > latest.createdAt
                          THEN Head(rest) ELSE latest,
                          Tail(rest))

mostRecentBookmark(valid) == reduceMostRecent(Head(valid), Tail(valid))

summaryTitle(valid) ==
    IF Len(valid) = 1
    THEN <<"Summary:", valid[1].title>>
    ELSE <<"Summary of", Len(valid)>>

\* `intellimark://summary/${Date.now()}`
summaryUrl(t) == <<"intellimark://summary/", t>>

\* the batch taken only when every task succeeded
wholeBatchOrNothing(slots) ==
    IF \A i \in 1..Len(slots) : slots[i].status = "fulfilled" THEN slots ELSE <<>>

successfulExtractions(slots) ==
    SelectSeq(slots, LAMBDA o : o.status = "fulfilled")

\* the test of the success subset left out
extractionNeverFails(successes) == FALSE

\* successfulExtractions.length === 0
extractionFailed(successes) == Len(successes) = 0

RECURSIVE valuesOf(_)
valuesOf(slots) ==
    IF slots = <<>> THEN <<>> ELSE <<Head(slots).value>> \o valuesOf(Tail(slots))

\* Promise.all in place of Promise.allSettled: settled at the first rejection
SettledAtFirstRejection(slots) ==
    \/ \A i \in 1..Len(slots) : slots[i].status # "pending"
    \/ \E i \in 1..Len(slots) : slots[i].status = "rejected"

\* Promise.allSettled resolves when no task is pending
AllSettled(slots) == \A i \in 1..Len(slots) : slots[i].status # "pending"

\* the results collected in the order the tasks complete
settleNextFree(slots, i, outcome) ==
    LET free == CHOOSE k \in 1..Len(slots) :
                    /\ slots[k].status = "pending"
                    /\ \A j \in 1..(k - 1) : slots[j].status # "pending"
    IN  [slots EXCEPT ![free] = outcome]

\* Promise.allSettled keeps the result of the i-th promise at index i
settleSlot(slots, i, outcome) == [slots EXCEPT ![i] = outcome]

\* the fetches the batch launches: one call of extractContentViaAPI for each
\* valid bookmark, each run to its first await
RECURSIVE launchRequests(_)
launchRequests(valid) ==
    IF valid = <<>> THEN <<>>
    ELSE readerRequests(Head(valid).url) \o launchRequests(Tail(valid))

\* res.status(422).json({ success: false, error: { message, code } }): the
\* message names validBookmarks.length; the body has no details, written <<>>
extractionFailedResponse(valid, slots) ==
    [status |-> 422, code |-> "CONTENT_EXTRACTION_FAILED",
     count |-> Len(valid), details |-> <<>>]

\* an error response though the row is written
failureResponse(row, n) == [status |-> 500, code |-> "SUMMARY_GENERATION_ERROR"]

\* res.json({ success: true, data: { summary: summaryBookmark }, message })
successResponse(row, n) ==
    [status |-> 200, code |-> "OK", summary |-> row, count |-> n]

\* bookmarks.filter(bookmark => bookmark !== null) over the lookups
RECURSIVE lookupAll(_, _)
lookupAll(table, ids) ==
    IF ids = <<>> THEN <<>>
    ELSE getBookmark(table, Head(ids)) \o lookupAll(table, Tail(ids))

(***************************************************************************)
(* generateSummary, step by step: each action runs the handler from one    *)
(* await to the next.                                                      *)
(***************************************************************************)
Requests == DOMAIN pc

\* the module-level aiService: null only if the constructor threw, which it
\* never does
moduleAiService == <<NewAIService(envKey)>>

\* req.body.apiKey || req.headers['x-openai-api-key']
userApiKey(q) == IF q.bodyKey # "" THEN q.bodyKey ELSE q.headerKey

activeAIService(q) ==
    IF userApiKey(q) # "" THEN NewAIService(TRUE) ELSE Head(moduleAiService)

\* the checks before the first await: the response sent, or NoResp
earlyResponse(q) ==
    IF ~q.authenticated
    THEN [status |-> 401, code |-> "NOT_AUTHENTICATED"]
    ELSE IF ~q.wellFormed
    THEN [status |-> 400, code |-> "VALIDATION_ERROR"]
    ELSE IF userApiKey(q) # ""
    THEN IF KeyWellFormed(userApiKey(q))
         THEN NoResp
         ELSE [status |-> 400, code |-> "INVALID_API_KEY"]
    ELSE IF Len(moduleAiService) > 0
    THEN NoResp
    ELSE [status |-> 400, code |-> "API_KEY_REQUIRED"]

Receive(r) ==
    /\ pc[r] = "received"
    /\ LET early == earlyResponse(req[r])
       IN  IF early # NoResp
           THEN /\ resp' = [resp EXCEPT ![r] = early]
                /\ pc' = [pc EXCEPT ![r] = "done"]
           ELSE /\ pc' = [pc EXCEPT ![r] = "lookup"]
                /\ UNCHANGED resp
    /\ UNCHANGED <<bookmarks, now, method, clusters, store, envKey, net, aiReply, screenVars, authVars,
                   req, validBookmarks, outcomes, aiResult>>
    /\ UNCHANGED observed

\* await Promise.all(getBookmark ...), the filter, and the launch of the fetches
Lookup(r) ==
    /\ pc[r] = "lookup"
    /\ LET valid == lookupAll(store, req[r].bookmarkIds)
       IN  /\ validBookmarks' = [validBookmarks EXCEPT ![r] = valid]
           /\ IF Len(valid) = 0
              THEN /\ resp' = [resp EXCEPT ![r] =
                                  [status |-> 404, code |-> "BOOKMARKS_NOT_FOUND"]]
                   /\ pc' = [pc EXCEPT ![r] = "done"]
                   /\ UNCHANGED <<outcomes, fetchLog>>
              ELSE /\ outcomes' = [outcomes EXCEPT ![r] =
                                      [i \in 1..Len(valid) |-> Pending]]
                   /\ fetchLog' = fetchLog \o launchRequests(valid)
                   /\ pc' = [pc EXCEPT ![r] = "extracting"]
                   /\ UNCHANGED resp
    /\ UNCHANGED <<bookmarks, now, method, clusters, store, envKey, net, aiReply, screenVars, authVars,
                   req, aiResult, aiCalls, extracted>>

\* one fetch task of the batch settles
SettleFetch(r, i) ==
    /\ pc[r] = "extracting"
    /\ i \in 1..Len(outcomes[r])
    /\ outcomes[r][i] = Pending
    /\ net[validBookmarks[r][i].id].kind # "hang"
    /\ outcomes' = [outcomes EXCEPT ![r] =
                       settleSlot(@, i, extractContentViaAPI(validBookmarks[r][i],
                                                             net[validBookmarks[r][i].id]))]
    /\ UNCHANGED <<bookmarks, now, method, clusters, store, envKey, net, aiReply, screenVars, authVars,
                   pc, req, validBookmarks, aiResult, resp>>
    /\ UNCHANGED observed

\* Promise.allSettled resolves; the success subset is taken and the
\* summarization client is called
Decide(r) ==
    /\ pc[r] = "extracting"
    /\ AllSettled(outcomes[r])
    /\ IF extractionFailed(successfulExtractions(outcomes[r]))
       THEN /\ resp' = [resp EXCEPT ![r] =
                           extractionFailedResponse(validBookmarks[r], outcomes[r])]
            /\ pc' = [pc EXCEPT ![r] = "done"]
       ELSE /\ pc' = [pc EXCEPT ![r] = "summarizing"]
            /\ UNCHANGED resp
    /\ UNCHANGED <<bookmarks, now, method, clusters, store, envKey, net, aiReply, screenVars, authVars,
                   req, validBookmarks, outcomes, aiResult>>
    /\ UNCHANGED observed

\* activeAIService.generateSummary returns or throws; on return the artifact's
\* data is built and createBookmarkWithDate is called
Summarize(r) ==
    /\ pc[r] = "summarizing"
    /\ LET contents == valuesOf(successfulExtractions(outcomes[r]))
           result == aiGenerateSummary(activeAIService(req[r]), contents, aiReply[r])
       IN  /\ aiCalls' = [aiCalls EXCEPT ![r] = Append(@, contents)]
           /\ IF result.kind = "throws"
              THEN /\ resp' = [resp EXCEPT ![r] =
                                  [status |-> 500, code |-> "SUMMARY_GENERATION_ERROR"]]
                   /\ pc' = [pc EXCEPT ![r] = "done"]
                   /\ UNCHANGED aiResult
              ELSE /\ aiResult' = [aiResult EXCEPT ![r] =
                                      [kind       |-> result.kind,
                                       summary    |-> result.summary,
                                       keyPoints  |-> result.keyPoints,
                                       categories |-> result.categories,
                                       sentiment  |-> result.sentiment,
                                       stamp      |-> now]]
                   /\ pc' = [pc EXCEPT ![r] = "writing"]
                   /\ UNCHANGED resp
    /\ UNCHANGED <<bookmarks, now, method, clusters, store, envKey, net, aiReply, screenVars, authVars,
                   req, validBookmarks, outcomes, fetchLog, extracted>>

\* the store write completes and the success response is sent
WriteSummary(r) ==
    /\ pc[r] = "writing"
    /\ store' = createBookmarkWithDate(
                    store,
                    [url        |-> summaryUrl(aiResult[r].stamp),
                     title      |-> summaryTitle(validBookmarks[r]),
                     content    |-> aiResult[r].summary,
                     categories |-> summaryCategories(validBookmarks[r], aiResult[r])],
                    DateToString(mostRecentBookmark(validBookmarks[r]).createdAt))
    /\ resp' = [resp EXCEPT ![r] =
                   successResponse(store'[Len(store')], Len(validBookmarks[r]))]
    /\ pc' = [pc EXCEPT ![r] = "done"]
    /\ UNCHANGED <<bookmarks, now, method, clusters, envKey, net, aiReply, screenVars, authVars,
                   req, validBookmarks, outcomes, aiResult>>
    /\ UNCHANGED observed

(***************************************************************************)
(* The clusters screen: refreshBookmarks and generateClusters.  The screen *)
(* refreshes after the summarize response has arrived.                     *)
(***************************************************************************)
NoRequestInFlight == \A r \in Requests : pc[r] = "done"

RefreshBookmarks ==
    /\ NoRequestInFlight
    /\ bookmarks' = getBookmarks(store)
    /\ UNCHANGED <<now, method, clusters, store, envKey, net, aiReply, screenVars, authVars,
                   pc, req, validBookmarks, outcomes, aiResult, resp>>
    /\ UNCHANGED observed

\* the call of createClusters: its result, and the array it was given as the
\* call leaves it
CreateClusters(m) ==
    /\ NoRequestInFlight
    /\ method' = m
    /\ clusters' = createClusters(bookmarks, m, now)
    /\ bookmarks' = bookmarksArgument(bookmarks, m, now)
    /\ UNCHANGED <<now, store, envKey, net, aiReply, screenVars, authVars,
                   pc, req, validBookmarks, outcomes, aiResult, resp>>
    /\ UNCHANGED observed

(***************************************************************************)
(* A fetcher called on its own, on the url of a stored bookmark.           *)
(***************************************************************************)
NotExtracted == [fetcher |-> "none"]

ExtractContent(i) ==
    /\ extracted = NotExtracted
    /\ i \in 1..Len(store)
    /\ fetchLog' = fetchLog \o directRequests(store[i].url)
    /\ extracted' = [fetcher |-> "direct",
                     url     |-> store[i].url,
                     outcome |-> extractContent(store[i].url, net[i])]
    /\ UNCHANGED <<bookmarks, now, method, clusters, store, envKey, net, aiReply, screenVars, authVars,
                   pc, req, validBookmarks, outcomes, aiResult, resp, aiCalls>>

ExtractContentViaAPI(i) ==
    /\ extracted = NotExtracted
    /\ i \in 1..Len(store)
    /\ fetchLog' = fetchLog \o readerRequests(store[i].url)
    /\ extracted' = [fetcher |-> "reader",
                     url     |-> store[i].url,
                     outcome |-> extractContentViaAPI(store[i], net[i])]
    /\ UNCHANGED <<bookmarks, now, method, clusters, store, envKey, net, aiReply, screenVars, authVars,
                   pc, req, validBookmarks, outcomes, aiResult, resp, aiCalls>>

(***************************************************************************)
(* Inputs.                                                                 *)
(***************************************************************************)
Now == 1000 * OneDay

CatA == <<"a">>
CatB == <<"b">>
CatX == <<"x">>

\* ages (now - createdAt) on both sides of every threshold, and in the future
DateAges ==
    {0, OneDay - 1, OneDay, 2 * OneDay, 8 * OneDay - 1, 8 * OneDay, 31 * OneDay - 1,
     31 * OneDay, 91 * OneDay - 1, 91 * OneDay, 0 - 1, 0 - 3 * OneDay}

DatePool == {[categories |-> <<>>, age |-> a] : a \in DateAges}

CategoryPool ==
    {[categories |-> <<CatA>>,               age |-> 0],
     [categories |-> <<CatA>>,               age |-> OneDay],
     [categories |-> <<CatB>>,               age |-> 0],
     [categories |-> <<CatA, CatB>>,         age |-> OneDay],
     [categories |-> <<CatB, CatA>>,         age |-> 0],
     [categories |-> <<CatA, CatA>>,         age |-> 0],
     [categories |-> <<<<" ", "a">>, <<"a", " ">>>>, age |-> OneDay],
     [categories |-> <<<<" ">>>>,            age |-> 0],
     [categories |-> <<>>,                   age |-> 2 * OneDay]}

SourcePool ==
    {[categories |-> <<CatA>>,               age |-> OneDay - 2],
     [categories |-> <<CatA, CatB>>,         age |-> 0],
     [categories |-> <<CatB>>,               age |-> OneDay + 1],
     [categories |-> <<<<" ", "a">>>>,       age |-> 2 * OneDay],
     [categories |-> <<>>,                   age |-> 8 * OneDay - 1],
     [categories |-> <<AiSummaryTag, CatA>>, age |-> 0]}

\* category names that differ in letter case, or in the amount or the kind of
\* inner white space, only
IdPool ==
    {[categories |-> <<<<"A">>, CatA>>,                                age |-> 0],
     [categories |-> <<<<"a", " ", "b">>, <<"a", " ", " ", "b">>>>,    age |-> OneDay],
     [categories |-> <<<<"a", "\t", "b">>, <<"a", " ", "b">>>>,        age |-> 0],
     [categories |-> <<CatB>>,                                         age |-> 0]}

ListsOver(pool, n) == UNION {[1..k -> pool] : k \in 0..n}

\* the bookmark list a choice of pool entries stands for: ids are 1, 2, ...
MakeList(f) ==
    [i \in 1..Len(f) |->
        [id         |-> i,
         url        |-> <<"https://", i>>,
         title      |-> <<"title", i>>,
         categories |-> f[i].categories,
         createdAt  |-> Now - f[i].age]]

\* the non-empty lists of ids among 0..n in increasing order (0 is no bookmark)
RECURSIVE IdLists(_)
IdLists(ids) ==
    IF ids = {} THEN {<<>>}
    ELSE LET m == CHOOSE x \in ids : \A y \in ids : x >= y
             rest == IdLists(ids \ {m})
         IN  rest \cup {Append(l, m) : l \in rest}

GoodRequest(ids) ==
    [authenticated |-> TRUE, wellFormed |-> TRUE, bodyKey |-> "sk-ok",
     headerKey |-> "", bookmarkIds |-> ids]

OkAnswer == [kind |-> "http", ok |-> TRUE, len |-> MinContentChars]
JsonReply ==
    [kind |-> "json", raw |-> Text("json", 40), summary |-> Text("s", 1),
     keyPoints |-> <<"k">>, categories |-> <<CatX, CatA>>, sentiment |-> "positive"]
TextReply == [kind |-> "text", raw |-> Text("raw", 5)]

NoRequests ==
    /\ pc = <<>>
    /\ req = <<>>
    /\ validBookmarks = <<>>
    /\ outcomes = <<>>
    /\ aiResult = <<>>
    /\ resp = <<>>
    /\ aiReply = <<>>
    /\ aiCalls = <<>>

OneRequest(q, reply) ==
    /\ pc = <<"received">>
    /\ req = <<q>>
    /\ validBookmarks = <<(<<>>)>>
    /\ outcomes = <<(<<>>)>>
    /\ aiResult = <<NoResult>>
    /\ resp = <<NoResp>>
    /\ aiReply = <<reply>>
    /\ aiCalls = <<(<<>>)>>

\* nothing observed yet
\* useState(null), useState(new Set()), useState(false): the clusters screen
\* as it is mounted, nothing asked of it yet
NoCluster == <<>>
NoCall == [at |-> "idle"]

ScreenMounted ==
    /\ expandedCluster = NoCluster
    /\ selectedBookmarks = <<>>
    /\ isGeneratingSummary = FALSE
    /\ alerts = <<>>
    /\ tokenWait = NoCall
    /\ awaiting = {}
    /\ route = "clusters"

\* the API client as constructed: no request made; the tokens of a session
NoDelivery == "none"

ApiIdle ==
    /\ stack = <<>>
    /\ delivery = NoDelivery
    /\ sentLog = <<>>
    /\ apiOutcome = "idle"

\* nothing observed yet, the screen as mounted, the API client idle
NothingObserved ==
    /\ fetchLog = <<>>
    /\ extracted = NotExtracted
    /\ ScreenMounted
    /\ ApiIdle
    /\ tokensStored = [accessToken |-> TRUE, refreshToken |-> TRUE]

(***************************************************************************)
(* SpecCluster: createClusters over every list of dated bookmarks and over *)
(* every list of tagged bookmarks.                                         *)
(***************************************************************************)
InitCluster ==
    /\ \E f \in ListsOver(DatePool, MaxBookmarks) \cup ListsOver(CategoryPool, MaxBookmarks)
                  \cup ListsOver(IdPool, MaxBookmarks) :
           bookmarks = MakeList(f)
    /\ now = Now
    /\ method = NotCalled
    /\ clusters = <<>>
    /\ store = <<>>
    /\ envKey = TRUE
    /\ net = <<>>
    /\ NoRequests
    /\ NothingObserved

NextCluster == \E m \in Methods : CreateClusters(m)

SpecCluster == InitCluster /\ [][NextCluster]_vars

(***************************************************************************)
(* SpecSummary: one summarize request over every store of sources, then    *)
(* the screen's refresh and re-clustering.                                 *)
(***************************************************************************)
\* requests that reach the writer, over every store
InitSources ==
    /\ \E f \in ListsOver(SourcePool, MaxSources) :
           /\ Len(f) >= 1
           /\ store = MakeList(f)
           /\ net = [i \in 1..Len(f) |-> OkAnswer]
           /\ \E ids \in IdLists(1..Len(f)), reply \in {JsonReply, TextReply} :
                  /\ ids # <<>>
                  /\ OneRequest(GoodRequest(ids), reply)
    /\ envKey = TRUE

\* requests and environments that fail, over one store of two bookmarks
FaultyRequests ==
    {[GoodRequest(<<1, 2>>) EXCEPT !.authenticated = FALSE],
     [GoodRequest(<<1, 2>>) EXCEPT !.wellFormed = FALSE],
     [GoodRequest(<<1, 2>>) EXCEPT !.bodyKey = "bad"],
     [GoodRequest(<<1, 2>>) EXCEPT !.bodyKey = "", !.headerKey = "sk-ok"],
     [GoodRequest(<<1, 2>>) EXCEPT !.bodyKey = ""],
     GoodRequest(<<0>>),
     GoodRequest(<<0, 2>>),
     GoodRequest(<<1, 2>>)}

Answers ==
    {OkAnswer,
     [kind |-> "http", ok |-> TRUE, len |-> MinContentChars - 1],
     [kind |-> "http", ok |-> FALSE, len |-> 0],
     [kind |-> "throw"]}

\* the replies of the model: a JSON object as asked for, one without a summary
\* and with an unknown sentiment, one whose summary is a number, plain text,
\* text longer than the fallback keeps, braces that JSON.parse refuses, an
\* empty message, and a failed call
Replies ==
    {JsonReply,
     [JsonReply EXCEPT !.summary = [type |-> "missing", body |-> "", len |-> 0],
                       !.sentiment = "mixed"],
     [JsonReply EXCEPT !.summary = [type |-> "number", body |-> "5", len |-> 0]],
     TextReply,
     [kind |-> "text", raw |-> Text("long", MaxFallbackChars + 1)],
     [kind |-> "badjson", raw |-> Text("{broken", MaxFallbackChars)],
     [kind |-> "error"],
     [kind |-> "empty"]}

InitFaults ==
    /\ store = MakeList([i \in 1..2 |-> [categories |-> <<CatA>>, age |-> i * OneDay]])
    /\ \E q \in FaultyRequests, reply \in Replies :
           OneRequest(q, reply)
    /\ net \in [1..2 -> Answers]
    /\ envKey \in BOOLEAN

InitSummary ==
    /\ InitSources \/ InitFaults
    /\ bookmarks = <<>>
    /\ now = Now
    /\ method = NotCalled
    /\ clusters = <<>>
    /\ NothingObserved

NextSummary ==
    \/ \E r \in Requests : Receive(r)
    \/ \E r \in Requests : Lookup(r)
    \/ \E r \in Requests : \E i \in 1..MaxSources : SettleFetch(r, i)
    \/ \E r \in Requests : Decide(r)
    \/ \E r \in Requests : Summarize(r)
    \/ \E r \in Requests : WriteSummary(r)
    \/ RefreshBookmarks
    \/ \E m \in Methods : CreateClusters(m)

SpecSummary == InitSummary /\ [][NextSummary]_vars

(***************************************************************************)
(* SpecExtract: each fetcher called once on a url, over every url and      *)
(* every answer of the network.                                            *)
(***************************************************************************)
UrlPool ==
    {<<"https://", "site", "/page">>,
     <<"https://", "site", "/paper", ".pdf">>,
     <<"https://", "site", "/paper", ".PDF">>,
     <<"https://", "site", "/paper", ".pdf", "?download">>,
     <<"https://", "site", "/pdf/", "2504">>,
     <<"site", "/paper", ".pdf">>,
     <<"site", "/page">>}

ExtractLengths ==
    {0, MinCleanChars - 1, MinCleanChars, MinContentChars - 1, MinContentChars,
     MaxContentChars + 1}

ExtractAnswers ==
    {[kind |-> "throw"], [kind |-> "http", ok |-> FALSE, len |-> 0]}
        \cup {[kind |-> "http", ok |-> TRUE, len |-> n] : n \in ExtractLengths}

InitExtract ==
    /\ \E u \in UrlPool :
           store = <<[id |-> 1, url |-> u, title |-> <<"title", 1>>,
                      categories |-> <<>>, createdAt |-> Now]>>
    /\ net \in [1..1 -> ExtractAnswers]
    /\ envKey = TRUE
    /\ bookmarks = <<>>
    /\ now = Now
    /\ method = NotCalled
    /\ clusters = <<>>
    /\ NoRequests
    /\ NothingObserved

NextExtract ==
    \/ \E i \in 1..Len(store) : ExtractContent(i)
    \/ \E i \in 1..Len(store) : ExtractContentViaAPI(i)

SpecExtract == InitExtract /\ [][NextExtract]_vars

(***************************************************************************)
(* SpecHang: one summarize request while a url may never be answered.  The *)
(* event loop runs every continuation that is ready: the steps of the      *)
(* handler are weakly fair.                                                *)
(***************************************************************************)
\* the server of the url accepts the connection and never answers
HangAnswer == [kind |-> "hang"]

InitHang ==
    /\ store = MakeList([i \in 1..2 |-> [categories |-> <<CatA>>, age |-> i * OneDay]])
    /\ net \in [1..2 -> {OkAnswer, [kind |-> "throw"], HangAnswer}]
    /\ \E ids \in IdLists(1..2), reply \in {JsonReply, TextReply} :
           /\ ids # <<>>
           /\ OneRequest(GoodRequest(ids), reply)
    /\ envKey = TRUE
    /\ bookmarks = <<>>
    /\ now = Now
    /\ method = NotCalled
    /\ clusters = <<>>
    /\ NothingObserved

\* a step of generateSummary for the request r
Handle(r) ==
    \/ Receive(r)
    \/ Lookup(r)
    \/ \E i \in 1..MaxSources : SettleFetch(r, i)
    \/ Decide(r)
    \/ Summarize(r)
    \/ WriteSummary(r)

HandlerStep == \E r \in Requests : Handle(r)

SpecHang == InitHang /\ [][NextSummary]_vars /\ WF_vars(HandlerStep)

(***************************************************************************)
(* SpecTwo: two summarize requests handled by the same server process,     *)
(* their steps interleaved, while the clock may advance between any two    *)
(* steps.                                                                  *)
(***************************************************************************)
\* how far the clock advances while the two requests are handled
MaxClockSteps == 2

\* Date.now() has moved on by one unit of its resolution
Tick ==
    /\ now < Now + MaxClockSteps
    /\ now' = now + 1
    /\ UNCHANGED <<bookmarks, method, clusters, store, envKey, net, aiReply, screenVars, authVars,
                   pc, req, validBookmarks, outcomes, aiResult, resp>>
    /\ UNCHANGED observed

TwoRequests(q1, q2, reply1, reply2) ==
    /\ pc = <<"received", "received">>
    /\ req = <<q1, q2>>
    /\ validBookmarks = <<(<<>>), (<<>>)>>
    /\ outcomes = <<(<<>>), (<<>>)>>
    /\ aiResult = <<NoResult, NoResult>>
    /\ resp = <<NoResp, NoResp>>
    /\ aiReply = <<reply1, reply2>>
    /\ aiCalls = <<(<<>>), (<<>>)>>

InitTwo ==
    /\ store = MakeList([i \in 1..2 |-> [categories |-> <<CatA>>, age |-> i * OneDay]])
    /\ net \in [1..2 -> {OkAnswer, [kind |-> "throw"]}]
    /\ \E ids1, ids2 \in {<<1>>, <<2>>, <<1, 2>>} :
           TwoRequests(GoodRequest(ids1), GoodRequest(ids2), JsonReply, TextReply)
    /\ envKey = TRUE
    /\ bookmarks = <<>>
    /\ now = Now
    /\ method = NotCalled
    /\ clusters = <<>>
    /\ NothingObserved

NextTwo ==
    \/ HandlerStep
    \/ RefreshBookmarks
    \/ \E m \in Methods : CreateClusters(m)
    \/ Tick

SpecTwo == InitTwo /\ [][NextTwo]_vars

(***************************************************************************)
(* SpecParse: one request over one bookmark whose text is fetched, and a   *)
(* completion given as text: every text of up to MaxReplyTokens pieces.    *)
(***************************************************************************)
MaxReplyTokens == 5
ReplyAlphabet == {"{", "}", "s1", "s2", "k", "t"}

RawReplies ==
    {[kind |-> "raw", raw |-> Text(t, Len(t))] :
        t \in UNION {[1..n -> ReplyAlphabet] : n \in 1..MaxReplyTokens}}

InitParse ==
    /\ store = MakeList(<<[categories |-> <<CatA>>, age |-> OneDay]>>)
    /\ net = <<OkAnswer>>
    /\ \E reply \in RawReplies : OneRequest(GoodRequest(<<1>>), reply)
    /\ envKey = TRUE
    /\ bookmarks = <<>>
    /\ now = Now
    /\ method = NotCalled
    /\ clusters = <<>>
    /\ NothingObserved

SpecParse == InitParse /\ [][HandlerStep]_vars

(***************************************************************************)
(* The clusters screen: the modal of an expanded cluster, the selection    *)
(* made in it by long presses, and handleGenerateSummary.  A native alert  *)
(* takes the touches while it is shown.                                    *)
(***************************************************************************)
MaxRequests == 2

clientVars == <<bookmarks, method, clusters>>
serverVars == <<now, store, envKey, net, fetchLog, aiCalls, extracted>>
requestVars == <<aiReply, pc, req, validBookmarks, outcomes, aiResult, resp>>

Touchable == route = "clusters" /\ alerts = <<>>

\* the cards of the modal that is visible: expandedCluster === cluster.id
ExpandedCards ==
    UNION {{clusters[c].bookmarks[k] : k \in 1..Len(clusters[c].bookmarks)} :
              c \in {d \in 1..Len(clusters) : clusters[d].id = expandedCluster}}

\* onPress of a cluster card: setExpandedCluster(cluster.id)
PressClusterCard(c) ==
    /\ Touchable
    /\ expandedCluster = NoCluster
    /\ expandedCluster' = clusters[c].id
    /\ UNCHANGED <<authVars, clientVars, serverVars, requestVars, selectedBookmarks,
                   isGeneratingSummary, alerts, tokenWait, awaiting, route>>

\* the close button and onRequestClose of the modal: setExpandedCluster(null)
CloseModal ==
    /\ Touchable
    /\ expandedCluster # NoCluster
    /\ expandedCluster' = NoCluster
    /\ UNCHANGED <<authVars, clientVars, serverVars, requestVars, selectedBookmarks,
                   isGeneratingSummary, alerts, tokenWait, awaiting, route>>

\* onPress of a card of the modal: a summary card closes the modal, any other
\* card is opened by the system and leaves the screen as it is
PressCard(card) ==
    /\ Touchable
    /\ card \in ExpandedCards
    /\ card.url[1] = "intellimark://summary/"
    /\ expandedCluster' = NoCluster
    /\ UNCHANGED <<authVars, clientVars, serverVars, requestVars, selectedBookmarks,
                   isGeneratingSummary, alerts, tokenWait, awaiting, route>>

\* newSelected.has(id) ? newSelected.delete(id) : newSelected.add(id)
toggle(selected, id) ==
    IF \E i \in 1..Len(selected) : selected[i] = id
    THEN SelectSeq(selected, LAMBDA x : x # id)
    ELSE Append(selected, id)

\* onLongPress of a card of the modal
LongPressCard(card) ==
    /\ Touchable
    /\ card \in ExpandedCards
    /\ selectedBookmarks' = toggle(selectedBookmarks, card.id)
    /\ UNCHANGED <<authVars, clientVars, serverVars, requestVars, expandedCluster,
                   isGeneratingSummary, alerts, tokenWait, awaiting, route>>

\* the Cancel button of the selection: setSelectedBookmarks(new Set())
CancelSelection ==
    /\ Touchable
    /\ expandedCluster # NoCluster
    /\ Len(selectedBookmarks) > 0
    /\ selectedBookmarks' = <<>>
    /\ UNCHANGED <<authVars, clientVars, serverVars, requestVars, expandedCluster,
                   isGeneratingSummary, alerts, tokenWait, awaiting, route>>

\* the Summary button: handleGenerateSummary(Array.from(selectedBookmarks)) up
\* to its await of getToken
PressSummary ==
    /\ Touchable
    /\ expandedCluster # NoCluster
    /\ Len(selectedBookmarks) > 0
    /\ ~isGeneratingSummary
    /\ isGeneratingSummary' = TRUE
    /\ tokenWait' = [at |-> "getToken", bookmarkIds |-> selectedBookmarks]
    /\ UNCHANGED <<authVars, clientVars, serverVars, requestVars, expandedCluster,
                   selectedBookmarks, alerts, route, awaiting>>

\* handleGenerateSummary from the return of getToken to its end: without a
\* token an alert and the login screen, with one the confirmation dialog;
\* then the finally block
TokenReturns(token) ==
    /\ tokenWait # NoCall
    /\ IF token
       THEN /\ alerts' = Append(alerts, [kind        |-> "confirm",
                                         bookmarkIds |-> tokenWait.bookmarkIds])
            /\ UNCHANGED route
       ELSE /\ alerts' = Append(alerts, [kind |-> "error", bookmarkIds |-> <<>>])
            /\ route' = "login"
    /\ isGeneratingSummary' = FALSE
    /\ tokenWait' = NoCall
    /\ UNCHANGED <<authVars, clientVars, serverVars, requestVars, expandedCluster,
                   selectedBookmarks, awaiting>>

\* the button of an alert that has no handler: Cancel of the confirmation, OK
\* of a message
DismissAlert ==
    /\ alerts # <<>>
    /\ alerts' = Tail(alerts)
    /\ UNCHANGED <<authVars, clientVars, serverVars, requestVars, expandedCluster,
                   selectedBookmarks, isGeneratingSummary, tokenWait, awaiting, route>>

\* the Generate button of the confirmation: AIService.generateSummary sends
\* the request and the handler awaits its response
PressGenerate ==
    /\ alerts # <<>>
    /\ Head(alerts).kind = "confirm"
    /\ Len(pc) < MaxRequests
    /\ alerts' = Tail(alerts)
    /\ pc' = Append(pc, "received")
    /\ req' = Append(req, GoodRequest(Head(alerts).bookmarkIds))
    /\ validBookmarks' = Append(validBookmarks, <<>>)
    /\ outcomes' = Append(outcomes, <<>>)
    /\ aiResult' = Append(aiResult, NoResult)
    /\ resp' = Append(resp, NoResp)
    /\ aiCalls' = Append(aiCalls, <<>>)
    /\ awaiting' = awaiting \cup {Len(pc) + 1}
    /\ UNCHANGED <<authVars, clientVars, now, store, envKey, net, aiReply, fetchLog, extracted,
                   expandedCluster, selectedBookmarks, isGeneratingSummary,
                   tokenWait, route>>

\* the response of the request: on success the selection is cleared, the
\* modal closed, the bookmarks read again and clustered again, and a message
\* shown; on failure a message is shown
ResponseArrives(r) ==
    /\ r \in awaiting
    /\ pc[r] = "done"
    /\ awaiting' = awaiting \ {r}
    /\ IF resp[r].status = 200
       THEN /\ selectedBookmarks' = <<>>
            /\ expandedCluster' = NoCluster
            /\ bookmarks' = bookmarksArgument(getBookmarks(store), method, now)
            /\ clusters' = createClusters(getBookmarks(store), method, now)
            /\ alerts' = Append(alerts, [kind |-> "success", bookmarkIds |-> <<>>])
       ELSE /\ alerts' = Append(alerts, [kind |-> "failed", bookmarkIds |-> <<>>])
            /\ UNCHANGED <<selectedBookmarks, expandedCluster, bookmarks, clusters>>
    /\ UNCHANGED <<authVars, method, serverVars, requestVars, isGeneratingSummary,
                   tokenWait, route>>

ScreenStep ==
    \/ \E c \in 1..Len(clusters) : PressClusterCard(c)
    \/ CloseModal
    \/ \E card \in ExpandedCards : PressCard(card)
    \/ \E card \in ExpandedCards : LongPressCard(card)
    \/ CancelSelection
    \/ PressSummary
    \/ \E token \in BOOLEAN : TokenReturns(token)
    \/ DismissAlert
    \/ PressGenerate
    \/ \E r \in Requests : ResponseArrives(r)

(***************************************************************************)
(* SpecScreen: the clusters screen over a store of two bookmarks of two    *)
(* days and one tag, clustered by the default strategy, and the summarize  *)
(* requests it sends.                                                      *)
(***************************************************************************)
InitScreen ==
    /\ store = MakeList([i \in 1..2 |-> [categories |-> <<>>, age |-> (i - 1) * OneDay]])
    /\ \E answer \in {[i \in 1..2 |-> OkAnswer], [i \in 1..2 |-> [kind |-> "throw"]]} :
           \* the reader endpoint refuses the reserved url of a summary
           net = [i \in 1..(2 + MaxRequests) |->
                     IF i <= 2 THEN answer[i] ELSE [kind |-> "http", ok |-> FALSE, len |-> 0]]
    /\ \E k \in 1..MaxRequests :
           \* the language model answers one of the requests, its calls fail for
           \* the others
           aiReply = [r \in 1..MaxRequests |-> IF r = k THEN JsonReply ELSE [kind |-> "error"]]
    /\ envKey = TRUE
    /\ now = Now
    /\ bookmarks = getBookmarks(store)
    /\ method = "auto"
    /\ clusters = createClusters(getBookmarks(store), "auto", Now)
    /\ pc = <<>>
    /\ req = <<>>
    /\ validBookmarks = <<>>
    /\ outcomes = <<>>
    /\ aiResult = <<>>
    /\ resp = <<>>
    /\ aiCalls = <<>>
    /\ NothingObserved

\* the server takes the requests of the screen one after the other
ServeInOrder ==
    \E r \in Requests :
        /\ \A q \in 1..(r - 1) : pc[q] = "done"
        /\ Handle(r)

NextScreen == ScreenStep \/ ServeInOrder

SpecScreen == InitScreen /\ [][NextScreen]_vars

(***************************************************************************)
(* APIService: the axios instance and its response interceptor.  A request *)
(* of the instance is a frame of the stack: the url it is sent to, the     *)
(* _retry mark of its config, and where it stands: sent, or answered 401   *)
(* and awaiting the refresh request it made ("refreshing"), or awaiting    *)
(* its own replay ("replaying").  The request on top is the one in flight. *)
(***************************************************************************)
MaxRefreshCalls == 3

RefreshUrl == "/auth/refresh"
Statuses == {200, 401, 500}

restVars == <<bookmarks, now, method, clusters, store, envKey, net, aiReply,
              pc, req, validBookmarks, outcomes, aiResult, resp,
              fetchLog, aiCalls, extracted, screenVars>>

Top == stack[Len(stack)]
Pop == SubSeq(stack, 1, Len(stack) - 1)
RefreshCallsSent == Cardinality({i \in 1..Len(sentLog) : sentLog[i] = RefreshUrl})

\* a call of the service: this.api.get(endpoint) and the like
ApiCall(endpoint) ==
    /\ apiOutcome = "idle"
    /\ stack = <<>>
    /\ stack' = <<[url |-> endpoint, retry |-> FALSE, at |-> "sent"]>>
    /\ sentLog' = Append(sentLog, endpoint)
    /\ apiOutcome' = "pending"
    /\ UNCHANGED <<restVars, tokensStored, delivery>>

\* the server answers the request in flight and the response interceptor
\* runs to its next request or to its end: a 401 of a request not yet
\* retried marks it and, with a refresh token stored, posts the refresh
\* request through the same instance; any other error is rejected
Respond(status) ==
    /\ stack # <<>>
    /\ Top.at = "sent"
    /\ delivery = NoDelivery
    /\ IF status = 200
       THEN /\ stack' = Pop
            /\ delivery' = "resolved"
            /\ UNCHANGED sentLog
       ELSE IF status = 401 /\ ~Top.retry /\ tokensStored.refreshToken
       THEN /\ RefreshCallsSent < MaxRefreshCalls
            /\ stack' = Append([stack EXCEPT ![Len(stack)] =
                                   [@ EXCEPT !.retry = TRUE, !.at = "refreshing"]],
                               [url |-> RefreshUrl, retry |-> FALSE, at |-> "sent"])
            /\ sentLog' = Append(sentLog, RefreshUrl)
            /\ UNCHANGED delivery
       ELSE /\ stack' = Pop
            /\ delivery' = "rejected"
            /\ UNCHANGED sentLog
    /\ UNCHANGED <<restVars, tokensStored, apiOutcome>>

\* a settled request is handed to the one that awaits it: after the refresh
\* the tokens are stored and originalRequest is sent again; a refresh that
\* failed is caught, the tokens are cleared and the error thrown again; the
\* outcome of a replay is the outcome of the request replayed
Deliver ==
    /\ delivery # NoDelivery
    /\ IF stack = <<>>
       THEN /\ apiOutcome' = delivery
            /\ delivery' = NoDelivery
            /\ UNCHANGED <<stack, sentLog, tokensStored>>
       ELSE IF Top.at = "refreshing" /\ delivery = "resolved"
       THEN /\ tokensStored' = [accessToken |-> TRUE, refreshToken |-> TRUE]
            /\ stack' = Append([stack EXCEPT ![Len(stack)] = [@ EXCEPT !.at = "replaying"]],
                               [url |-> Top.url, retry |-> TRUE, at |-> "sent"])
            /\ sentLog' = Append(sentLog, Top.url)
            /\ delivery' = NoDelivery
            /\ UNCHANGED apiOutcome
       ELSE IF Top.at = "refreshing"
       THEN /\ tokensStored' = [accessToken |-> FALSE, refreshToken |-> FALSE]
            /\ stack' = Pop
            /\ UNCHANGED <<delivery, sentLog, apiOutcome>>
       ELSE /\ stack' = Pop
            /\ UNCHANGED <<delivery, sentLog, apiOutcome, tokensStored>>
    /\ UNCHANGED restVars

(***************************************************************************)
(* SpecAuth: one call of the API client, with or without tokens stored,    *)
(* against a server that answers each request with any status.             *)
(***************************************************************************)
Endpoints == {"/bookmarks", "/auth/me"}

InitAuth ==
    /\ tokensStored \in [accessToken : BOOLEAN, refreshToken : BOOLEAN]
    /\ ApiIdle
    /\ fetchLog = <<>>
    /\ extracted = NotExtracted
    /\ ScreenMounted
    /\ NoRequests
    /\ bookmarks = <<>>
    /\ now = Now
    /\ method = NotCalled
    /\ clusters = <<>>
    /\ store = <<>>
    /\ envKey = TRUE
    /\ net = <<>>

NextAuth ==
    \/ \E endpoint \in Endpoints : ApiCall(endpoint)
    \/ \E status \in Statuses : Respond(status)
    \/ Deliver

SpecAuth == InitAuth /\ [][NextAuth]_vars

(***************************************************************************)
(* Vocabulary of the properties.                                           *)
(***************************************************************************)
DateKeyOf(c) == c.metadata.dateRange

CategoryOf(c) == c.metadata.keywords[1]

MemberIds(c) == {c.bookmarks[i].id : i \in 1..Len(c.bookmarks)}

ClustersOfType(t) == {i \in 1..Len(clusters) : clusters[i].type = t}

\* the whole days between createdAt and now, by its defining inequalities
WholeDays(b) ==
    CHOOSE d \in (0 - 5)..100 :
        d * OneDay <= now - b.createdAt /\ now - b.createdAt < (d + 1) * OneDay

ClaimedBucket(d) ==
    CASE d = 0 -> "today"
      [] d = 1 -> "yesterday"
      [] d \in 2..7 -> "this-week"
      [] d \in 8..30 -> "this-month"
      [] d \in 31..90 -> "this-quarter"
      [] d > 90 -> "older"

OrderIndex(key) == CHOOSE k \in 1..Len(dateOrder) : dateOrder[k] = key

\* raw, with the whitespace at its two ends removed, is c
TrimsTo(raw, c) ==
    /\ c # <<>>
    /\ c[1] \notin Whitespace
    /\ c[Len(c)] \notin Whitespace
    /\ \E i \in 0..Len(raw) :
           /\ i + Len(c) <= Len(raw)
           /\ SubSeq(raw, i + 1, i + Len(c)) = c
           /\ \A k \in 1..Len(raw) : (k <= i \/ k > i + Len(c)) => raw[k] \in Whitespace

Carries(b, c) == \E k \in 1..Len(b.categories) : TrimsTo(b.categories[k], c)

\* the place in the scan of the input where category c is first met
FirstSeen(c) ==
    LET places == {<<i, k>> \in (1..Len(bookmarks)) \X (1..4) :
                       k <= Len(bookmarks[i].categories)
                       /\ TrimsTo(bookmarks[i].categories[k], c)}
        first == CHOOSE p \in places :
                     \A q \in places : p[1] < q[1] \/ (p[1] = q[1] /\ p[2] <= q[2])
    IN  first[1] * 10 + first[2]

DateCalled == method \in {"date", "auto"}
CategoryCalled == method \in {"category", "auto"}

(***************************************************************************)
(* C4: in clusterByDate a bookmark that is d >= 0 whole days old is put in *)
(* the bucket today for d = 0, yesterday for 1, this-week for 2..7,        *)
(* this-month for 8..30, this-quarter for 31..90, older for d > 90.        *)
(***************************************************************************)
C4_BucketThresholds ==
    DateCalled =>
        \A i \in 1..Len(bookmarks) :
            WholeDays(bookmarks[i]) >= 0 =>
                /\ \E c \in ClustersOfType("date") :
                       /\ bookmarks[i].id \in MemberIds(clusters[c])
                       /\ DateKeyOf(clusters[c]) = ClaimedBucket(WholeDays(bookmarks[i]))
                /\ \A c \in ClustersOfType("date") :
                       bookmarks[i].id \in MemberIds(clusters[c]) =>
                           DateKeyOf(clusters[c]) = ClaimedBucket(WholeDays(bookmarks[i]))

C4_Witness ==
    /\ method = "date"
    /\ \E c \in ClustersOfType("date") :
           /\ DateKeyOf(clusters[c]) = "this-week"
           /\ \E i \in 1..Len(clusters[c].bookmarks) :
                  WholeDays(clusters[c].bookmarks[i]) = 7
    /\ \E c \in ClustersOfType("date") :
           /\ DateKeyOf(clusters[c]) = "older"
           /\ \E i \in 1..Len(clusters[c].bookmarks) :
                  WholeDays(clusters[c].bookmarks[i]) = 91

(***************************************************************************)
(* C5: date bucketing is a partition of the input: every input bookmark,   *)
(* one dated in the future included, is in exactly one date cluster, once, *)
(* and the cluster sizes add up to the length of the input.                *)
(***************************************************************************)
RECURSIVE SumSizes(_)
SumSizes(cs) == IF cs = {} THEN 0
                ELSE LET c == CHOOSE x \in cs : TRUE
                     IN  Len(clusters[c].bookmarks) + SumSizes(cs \ {c})

C5_DatePartition ==
    DateCalled =>
        /\ \A i \in 1..Len(bookmarks) :
               Cardinality({c \in ClustersOfType("date") :
                               bookmarks[i].id \in MemberIds(clusters[c])}) = 1
        /\ SumSizes(ClustersOfType("date")) = Len(bookmarks)

C5_Witness ==
    /\ method = "date"
    /\ Len(bookmarks) >= 2
    /\ \E i \in 1..Len(bookmarks) : bookmarks[i].createdAt > now
    /\ \E c \in ClustersOfType("date") :
           \E i \in 1..Len(clusters[c].bookmarks) : clusters[c].bookmarks[i].createdAt > now

(***************************************************************************)
(* C6: clusterByDate emits one cluster for each non-empty bucket, in the   *)
(* order today, yesterday, this-week, this-month, this-quarter, older, and *)
(* the members of a cluster are ordered newest first.                      *)
(***************************************************************************)
C6_DateOrder ==
    method = "date" =>
        /\ \A c \in 1..Len(clusters) : Len(clusters[c].bookmarks) >= 1
        /\ \A c, d \in 1..Len(clusters) :
               c < d => OrderIndex(DateKeyOf(clusters[c])) < OrderIndex(DateKeyOf(clusters[d]))
        /\ \A i \in 1..Len(bookmarks) :
               \E c \in 1..Len(clusters) : bookmarks[i].id \in MemberIds(clusters[c])
        /\ \A c \in 1..Len(clusters) :
               \A i, j \in 1..Len(clusters[c].bookmarks) :
                   i < j => clusters[c].bookmarks[i].createdAt
                                >= clusters[c].bookmarks[j].createdAt

C6_Witness ==
    /\ method = "date"
    /\ Len(clusters) >= 2
    /\ \E c \in 1..Len(clusters) :
           /\ Len(clusters[c].bookmarks) >= 2
           /\ clusters[c].bookmarks[1].createdAt > clusters[c].bookmarks[2].createdAt
           /\ clusters[c].bookmarks[1].id > clusters[c].bookmarks[2].id

(***************************************************************************)
(* C7: every category cluster has at least 2 distinct member bookmarks.    *)
(* The code counts the group before it removes the duplicates, so this     *)
(* statement fails.                                                        *)
(***************************************************************************)
C7_AtLeastTwoMembers ==
    CategoryCalled =>
        \A c \in ClustersOfType("category") : Cardinality(MemberIds(clusters[c])) >= 2

(***************************************************************************)
(* C8: the members of the category cluster of c are exactly the input      *)
(* bookmarks with a category that trims to c, each id once.                *)
(***************************************************************************)
C8_CategoryMembers ==
    CategoryCalled =>
        \A c \in ClustersOfType("category") :
            /\ MemberIds(clusters[c]) =
                   {bookmarks[i].id : i \in {j \in 1..Len(bookmarks) :
                                                Carries(bookmarks[j], CategoryOf(clusters[c]))}}
            /\ Cardinality(MemberIds(clusters[c])) = Len(clusters[c].bookmarks)

C8_Witness ==
    /\ method = "category"
    /\ \E c \in ClustersOfType("category") :
           /\ Len(clusters[c].bookmarks) >= 2
           /\ \E i \in 1..Len(bookmarks) :
                  /\ bookmarks[i].id \in MemberIds(clusters[c])
                  /\ Cardinality({k \in 1..Len(bookmarks[i].categories) :
                                     TrimsTo(bookmarks[i].categories[k], CategoryOf(clusters[c]))}) >= 2
           /\ \E i \in 1..Len(bookmarks) : ~Carries(bookmarks[i], CategoryOf(clusters[c]))

(***************************************************************************)
(* C9: clusterByCategory returns its clusters by descending member count,  *)
(* clusters of equal count in the order their categories were first seen.  *)
(***************************************************************************)
C9_CategoryOrder ==
    method = "category" =>
        \A c, d \in 1..Len(clusters) :
            c < d =>
                /\ Len(clusters[c].bookmarks) >= Len(clusters[d].bookmarks)
                /\ Len(clusters[c].bookmarks) = Len(clusters[d].bookmarks)
                       => FirstSeen(CategoryOf(clusters[c])) < FirstSeen(CategoryOf(clusters[d]))

C9_Witness ==
    /\ method = "category"
    /\ Len(clusters) = 2
    /\ Len(clusters[1].bookmarks) = Len(clusters[2].bookmarks)
    /\ Len(clusters[1].bookmarks) >= 2
    /\ CategoryOf(clusters[1]) = CatB

(***************************************************************************)
(* C10: the auto strategy returns the clusters of the category strategy    *)
(* together with those of the date strategy on the same input, by          *)
(* descending member count.                                                *)
(***************************************************************************)
SetOf(seq) == {seq[i] : i \in 1..Len(seq)}

C10_AutoIsUnion ==
    method = "auto" =>
        /\ SetOf(clusters) = SetOf(clusterByCategory(bookmarks))
                                 \cup SetOf(clusterByDate(bookmarks, now))
        /\ Len(clusters) = Len(clusterByCategory(bookmarks))
                               + Len(clusterByDate(bookmarks, now))
        /\ \A c, d \in 1..Len(clusters) :
               c < d => Len(clusters[c].bookmarks) >= Len(clusters[d].bookmarks)

C10_Witness ==
    /\ method = "auto"
    /\ ClustersOfType("category") # {}
    /\ Cardinality(ClustersOfType("date")) >= 2
    /\ \E c \in ClustersOfType("date"), d \in ClustersOfType("category") :
           /\ c < d
           /\ Len(clusters[c].bookmarks) > Len(clusters[d].bookmarks)
    /\ \E b \in SetOf(bookmarks) :
           Cardinality({c \in 1..Len(clusters) : b.id \in MemberIds(clusters[c])}) >= 2

(***************************************************************************)
(* The summary artifact of an answered request and its sources.            *)
(***************************************************************************)
Succeeded(r) == resp[r].status = 200

Artifact(r) == resp[r].summary

Sources(r) == SetOf(validBookmarks[r])

MostRecentSources(r) ==
    {s \in Sources(r) : \A o \in Sources(r) : s.createdAt >= o.createdAt}

\* the screen shows the artifact of r in clusters computed from its list
Reclustered(r) ==
    /\ Succeeded(r)
    /\ Artifact(r) \in SetOf(bookmarks)
    /\ Sources(r) \subseteq SetOf(bookmarks)
    /\ method # NotCalled
    /\ clusters = createClusters(bookmarks, method, now)

InCategoryClustersOfSources(r) ==
    \A c \in ClustersOfType("category") :
        (\E s \in Sources(r) : s.id \in MemberIds(clusters[c]))
            => Artifact(r).id \in MemberIds(clusters[c])

InDateClusterOfMostRecent(r) ==
    \A c \in ClustersOfType("date") :
        (\E s \in MostRecentSources(r) : s.id \in MemberIds(clusters[c]))
            => Artifact(r).id \in MemberIds(clusters[c])

(***************************************************************************)
(* C1: after generateSummary has persisted the artifact and the clusters   *)
(* are recomputed over the sources and the artifact, the artifact is in    *)
(* every category cluster that holds one of its sources and in the date    *)
(* cluster of the most recent source.  The date half fails: the timestamp  *)
(* handed to the store is the text of Date.toString().                     *)
(***************************************************************************)
C1_ArtifactJoinsSourceClusters ==
    \A r \in Requests :
        Reclustered(r) => InCategoryClustersOfSources(r) /\ InDateClusterOfMostRecent(r)

(***************************************************************************)
(* C2: the artifact's categories are 'ai-summary' followed by the distinct *)
(* categories of the sources: each source category is there, once, and no  *)
(* category the model suggested is added.                                  *)
(***************************************************************************)
C2_SummaryCategories ==
    \A r \in Requests :
        Succeeded(r) =>
            LET cats == Artifact(r).categories
            IN  /\ Len(cats) >= 1
                /\ cats[1] = AiSummaryTag
                /\ \A i, j \in 2..Len(cats) : i # j => cats[i] # cats[j]
                /\ {cats[i] : i \in 2..Len(cats)} =
                       UNION {SetOf(s.categories) : s \in Sources(r)}

C2_Witness ==
    \E r \in Requests :
        /\ Succeeded(r)
        /\ Len(validBookmarks[r]) >= 2
        /\ aiResult[r].categories # <<>>
        /\ SetOf(aiResult[r].categories) \ SetOf(Artifact(r).categories) # {}
        /\ Len(allSourceCategories(validBookmarks[r])) > Len(Artifact(r).categories) - 1
        /\ Len(Artifact(r).categories) >= 3

(***************************************************************************)
(* C3: the persisted artifact's createdAt is the createdAt of the most     *)
(* recent source.  It fails: generateSummary passes createdAt.toString(),  *)
(* which names the second only.                                            *)
(***************************************************************************)
C3_CreatedAtOfMostRecent ==
    \A r \in Requests :
        Succeeded(r) =>
            /\ \A s \in MostRecentSources(r) : Artifact(r).createdAt = s.createdAt
            /\ Artifact(r) \in SetOf(store)

Launched(r) == validBookmarks[r] # <<>> /\ pc[r] \notin {"received", "lookup"}

\* the reader endpoint answers the url of b with a page of enough text
AnswerIsGood(b) ==
    /\ net[b.id].kind = "http"
    /\ net[b.id].ok
    /\ net[b.id].len >= 200

StatusesOf(r) == {outcomes[r][i].status : i \in 1..Len(outcomes[r])}

\* the rows of the store that are summary bookmarks
SummaryRows == {i \in 1..Len(store) : store[i].url[1] = "intellimark://summary/"}

\* the content of the sources whose answer is good, in the order of the request
ExpectedContents(r) ==
    LET good == SelectSeq(validBookmarks[r], AnswerIsGood)
    IN  [k \in 1..Len(good) |->
            [id    |-> good[k].id,
             url   |-> good[k].url,
             title |-> good[k].title,
             len   |-> IF net[good[k].id].len < 8000 THEN net[good[k].id].len ELSE 8000]]

(***************************************************************************)
(* C12: the batch has exactly one outcome for each valid source, and the   *)
(* i-th outcome is that of the i-th source, in whatever order the fetches  *)
(* complete.                                                               *)
(***************************************************************************)
C12_OutcomePerSource ==
    \A r \in Requests :
        Launched(r) =>
            /\ Len(outcomes[r]) = Len(validBookmarks[r])
            /\ \A i \in 1..Len(outcomes[r]) :
                   /\ outcomes[r][i].status = "fulfilled" =>
                          /\ outcomes[r][i].value.url = validBookmarks[r][i].url
                          /\ outcomes[r][i].value.title = validBookmarks[r][i].title
                          /\ AnswerIsGood(validBookmarks[r][i])
                   /\ outcomes[r][i].status = "rejected" =>
                          ~AnswerIsGood(validBookmarks[r][i])

\* the second fetch has completed, with a success, before the first, which fails
C12_Witness ==
    \E r \in Requests :
        /\ Len(outcomes[r]) = 2
        /\ outcomes[r][1] = Pending
        /\ outcomes[r][2].status = "fulfilled"
        /\ ~AnswerIsGood(validBookmarks[r][1])

(***************************************************************************)
(* C13: while a fetch of the batch is outstanding nothing is decided: no   *)
(* response is sent and the summarization client is not called, whatever   *)
(* the fetches that have completed gave.                                   *)
(***************************************************************************)
C13_DecideAfterAllSettled ==
    \A r \in Requests :
        "pending" \in StatusesOf(r) =>
            /\ pc[r] = "extracting"
            /\ resp[r] = NoResp
            /\ aiCalls[r] = <<>>
            /\ aiResult[r] = NoResult

\* decided, after a failure that completed while a fetch was outstanding
C13_Witness ==
    \E r \in Requests :
        /\ pc[r] = "summarizing"
        /\ Len(outcomes[r]) = 2
        /\ outcomes[r][1].status = "rejected"
        /\ outcomes[r][2].status = "fulfilled"

(***************************************************************************)
(* C14: when every fetch of the batch has failed, the request ends with    *)
(* CONTENT_EXTRACTION_FAILED, the summarization client is never called and *)
(* no summary bookmark is created.                                         *)
(***************************************************************************)
C14_AllFail ==
    \A r \in Requests :
        Launched(r) /\ StatusesOf(r) = {"rejected"} =>
            /\ pc[r] \in {"extracting", "done"}
            /\ pc[r] = "done" =>
                   resp[r].status = 422 /\ resp[r].code = "CONTENT_EXTRACTION_FAILED"
            /\ aiCalls[r] = <<>>
            /\ SummaryRows = {}

C14_Witness ==
    \E r \in Requests :
        /\ pc[r] = "done"
        /\ resp[r].status = 422
        /\ Len(outcomes[r]) = 2
        /\ outcomes[r][1].status = "rejected"
        /\ outcomes[r][2].status = "rejected"
        /\ outcomes[r][1].reason # outcomes[r][2].reason

(***************************************************************************)
(* C15: when at least one fetch of the batch has succeeded the request     *)
(* goes on: the summarization client is called once, with the successful   *)
(* extractions in the order of the request; each url was fetched once, the *)
(* failed ones too; the request fails only if the summarization client     *)
(* does, never with CONTENT_EXTRACTION_FAILED.                             *)
(***************************************************************************)
C15_PartialSuccess ==
    \A r \in Requests :
        Launched(r) /\ "fulfilled" \in StatusesOf(r) /\ pc[r] \in {"writing", "done"} =>
            /\ aiCalls[r] = <<ExpectedContents(r)>>
            /\ Len(fetchLog) = Len(validBookmarks[r])
            /\ \A i \in 1..Len(fetchLog) : fetchLog[i].url = validBookmarks[r][i].url
            /\ resp[r].status # 422
            /\ pc[r] = "done" =>
                   (resp[r].status = 200
                        <=> aiGenerateSummary(activeAIService(req[r]), ExpectedContents(r),
                                              aiReply[r]).kind # "throws")

C15_Witness ==
    \E r \in Requests :
        /\ pc[r] = "done"
        /\ resp[r].status = 200
        /\ Len(outcomes[r]) = 2
        /\ outcomes[r][1].status = "rejected"
        /\ Len(aiCalls[r]) = 1
        /\ Len(aiCalls[r][1]) = 1
        /\ aiCalls[r][1][1].url = validBookmarks[r][2].url

(***************************************************************************)
(* C16: an extraction that is a success, of either fetcher, has a text of  *)
(* at least 200 characters, a page with less is a failure, and no content  *)
(* of less than 200 characters is given to the summarization client.  The  *)
(* direct fetcher rejects below 100 characters only, so this statement     *)
(* fails.                                                                  *)
(***************************************************************************)
C16_SuccessHasEnoughText ==
    /\ extracted.fetcher # "none" =>
           /\ extracted.outcome.status = "fulfilled" =>
                  extracted.outcome.value.len >= 200
           /\ (net[1].kind = "http" /\ net[1].ok /\ net[1].len < 200) =>
                  extracted.outcome.status = "rejected"
    /\ \A r \in Requests :
           \A k \in 1..Len(aiCalls[r]) :
               \A i \in 1..Len(aiCalls[r][k]) : aiCalls[r][k][i].len >= 200

(***************************************************************************)
(* C17: a summarize request does not commit in part: the summary bookmarks *)
(* of the store are as many as the success responses, the store changes    *)
(* only by the one row that a success response carries, and a request that *)
(* has failed has left no row.                                             *)
(***************************************************************************)
C17_NoPartialCommit ==
    /\ [](Cardinality(SummaryRows) = Cardinality({r \in Requests : Succeeded(r)}))
    /\ [](\A r \in Requests :
              pc[r] = "done" /\ ~Succeeded(r) => SummaryRows = {})
    /\ [][store' # store =>
              \E r \in Requests :
                  /\ resp[r] = NoResp
                  /\ resp'[r].status = 200
                  /\ store' = Append(store, resp'[r].summary)]_vars

\* a request that failed after its extractions and the call of the client
C17_Witness ==
    \E r \in Requests :
        /\ pc[r] = "done"
        /\ resp[r].status = 500
        /\ "fulfilled" \in StatusesOf(r)
        /\ aiCalls[r] # <<>>
        /\ SummaryRows = {}

(***************************************************************************)
(* C18: a request with a malformed API key, or with no key while the       *)
(* server has none, gets the credential error at once: no fetch is made    *)
(* for it.  It fails for the missing key: the module-level service always  *)
(* exists, the request goes on to its fetches and fails at the call of the *)
(* summarization client.                                                   *)
(***************************************************************************)
CredentialProblem(q) ==
    /\ q.authenticated
    /\ q.wellFormed
    /\ \/ userApiKey(q) \notin {"", "sk-ok"}
       \/ userApiKey(q) = "" /\ ~envKey

C18_CredentialErrorImmediate ==
    \A r \in Requests :
        CredentialProblem(req[r]) =>
            /\ fetchLog = <<>>
            /\ outcomes[r] = <<>>
            /\ pc[r] = "done" =>
                   resp[r].code \in {"INVALID_API_KEY", "API_KEY_REQUIRED"}

(***************************************************************************)
(* C19: when the summarization client was called with a usable key and the *)
(* model answered a text that does not parse, no error comes out of it:    *)
(* the summary is the first 1000 characters of the text, keyPoints and     *)
(* categories are empty, the sentiment is neutral, and the request ends    *)
(* with a success and its summary bookmark in the store.                   *)
(***************************************************************************)
ParseFails(reply) == reply.kind \in {"text", "badjson"}

C19_ParseFallback ==
    \A r \in Requests :
        (/\ aiCalls[r] # <<>>
         /\ "fulfilled" \in StatusesOf(r)
         /\ activeAIService(req[r]).openai
         /\ ParseFails(aiReply[r])) =>
            /\ pc[r] \in {"writing", "done"}
            /\ aiResult[r].summary.type = "string"
            /\ aiResult[r].summary.body = aiReply[r].raw.body
            /\ aiResult[r].summary.len <= 1000
            /\ aiResult[r].summary.len <= aiReply[r].raw.len
            /\ aiResult[r].summary.len = 1000 \/ aiResult[r].summary.len = aiReply[r].raw.len
            /\ aiResult[r].keyPoints = <<>>
            /\ aiResult[r].categories = <<>>
            /\ aiResult[r].sentiment = "neutral"
            /\ pc[r] = "done" => Succeeded(r) /\ Artifact(r) \in SetOf(store)

C19_Witness ==
    \E r \in Requests :
        /\ Succeeded(r)
        /\ ParseFails(aiReply[r])
        /\ aiReply[r].raw.len > 1000
        /\ aiResult[r].summary.len = 1000
        /\ "rejected" \in StatusesOf(r)

(***************************************************************************)
(* C20: a url that ends in .pdf is rejected by the fetcher before any      *)
(* network call.  As stated, for both fetchers, it fails: the reader       *)
(* fetcher sends every url to the reader endpoint.                         *)
(***************************************************************************)
EndsInPdf(url) == url[Len(url)] \in {".pdf", ".PDF"}

ContainsPdf(url) == \E i \in 1..Len(url) : url[i] \in {".pdf", ".PDF"}

C20_PdfRejectedBeforeNetwork ==
    (extracted.fetcher # "none" /\ EndsInPdf(extracted.url)) =>
        /\ extracted.outcome.status = "rejected"
        /\ fetchLog = <<>>

(***************************************************************************)
(* C20, amended: the direct fetcher rejects a url that contains .pdf, in   *)
(* any letter case, before any network call, a well-formed one with the    *)
(* failure of the PDF test; the reader fetcher makes one request to the    *)
(* reader endpoint for every url.                                          *)
(***************************************************************************)
C20_DirectFetcherRejectsPdf ==
    /\ (extracted.fetcher = "direct" /\ ContainsPdf(extracted.url)) =>
           /\ extracted.outcome.status = "rejected"
           /\ fetchLog = <<>>
           /\ extracted.url[1] = "https://" => extracted.outcome.reason = "pdf"
    /\ extracted.fetcher = "reader" =>
           fetchLog = <<[fetcher |-> "reader", url |-> extracted.url]>>

C20_Witness ==
    /\ extracted.fetcher = "direct"
    /\ extracted.url[Len(extracted.url)] = ".PDF"
    /\ extracted.outcome.status = "rejected"
    /\ extracted.outcome.reason = "pdf"
    /\ net[1].kind = "http"
    /\ net[1].ok
    /\ fetchLog = <<>>

(***************************************************************************)
(* C21: every fetch of the batch ends, a url that never answers ends as a  *)
(* timeout failure, so that every summarize request is answered in the     *)
(* end.  It fails: the fetch of extractContentViaAPI has no timeout and no *)
(* abort signal, and the batch waits for it for ever.                      *)
(***************************************************************************)
C21_RequestCompletes == <>(\A r \in Requests : pc[r] = "done")

(***************************************************************************)
(* C22: the reserved url of a summary artifact never collides: two summary *)
(* rows of the store, made by any two requests, have different urls.  It   *)
(* fails: the url is made of Date.now() alone, and two requests that reach *)
(* the writer within one reading of the clock get the same url.            *)
(***************************************************************************)
C22_SummaryUrlsDiffer ==
    \A i, j \in SummaryRows : i # j => store[i].url # store[j].url

(***************************************************************************)
(* C23: when every extraction has failed, the failure sent to the caller   *)
(* carries the number of urls attempted and up to 3 of the failure reasons *)
(* of the urls.  It fails: the response carries the number only.           *)
(***************************************************************************)
RejectionReasons(r) ==
    LET rejected == SelectSeq(outcomes[r], LAMBDA o : o.status = "rejected")
    IN  [k \in 1..Len(rejected) |-> rejected[k].reason]

C23_FailureCarriesReasons ==
    \A r \in Requests :
        resp[r].status = 422 =>
            /\ resp[r].count = Len(validBookmarks[r])
            /\ resp[r].details =
                   SubSeq(RejectionReasons(r), 1,
                          IF Len(RejectionReasons(r)) < 3 THEN Len(RejectionReasons(r)) ELSE 3)

(***************************************************************************)
(* C24: the number a success response reports is the number of successful  *)
(* extractions, also when some extraction failed.  It fails: the message   *)
(* reports the number of valid bookmarks.                                  *)
(***************************************************************************)
C24_SuccessCountsExtractions ==
    \A r \in Requests :
        Succeeded(r) =>
            resp[r].count = Cardinality({i \in 1..Len(outcomes[r]) :
                                            outcomes[r][i].status = "fulfilled"})

(***************************************************************************)
(* C29: the category list of a summary artifact has no entry twice, and    *)
(* 'ai-summary' once, whatever the sources, summary artifacts among them.  *)
(* It fails: 'ai-summary' is put before the distinct categories of the     *)
(* sources without a look at whether it is among them.                     *)
(***************************************************************************)
C29_CategoriesDistinct ==
    \A r \in Requests :
        Succeeded(r) =>
            LET cats == Artifact(r).categories
            IN  /\ \A i, j \in 1..Len(cats) : i # j => cats[i] # cats[j]
                /\ Cardinality({i \in 1..Len(cats) : cats[i] = AiSummaryTag}) = 1

(***************************************************************************)
(* C27: the clusters createClusters returns have pairwise distinct ids,    *)
(* whatever the strategy and the bookmarks.  It fails: the groups are kept *)
(* by the trimmed category name as written, and the id is made of the name *)
(* in lower case with each run of white space turned into one '-', so two  *)
(* names that differ in letter case or in inner white space only make two  *)
(* clusters with one id.                                                   *)
(***************************************************************************)
C27_ClusterIdsDistinct ==
    \A c, d \in 1..Len(clusters) : c # d => clusters[c].id # clusters[d].id

(***************************************************************************)
(* C26: parseAIResponse parses the first balanced {...} block of the text: *)
(* when the text holds a well-formed object and, after it, more text with  *)
(* another "}" in it, the result is made of the members of that first      *)
(* object and is not the fallback.  It fails: the pattern is greedy, the   *)
(* match runs to the last "}" of the text, JSON.parse throws on it and the *)
(* fallback is returned.                                                   *)
(***************************************************************************)
FirstOpen(t) ==
    LET opens == {i \in 1..Len(t) : t[i] = "{"}
    IN  IF opens = {} THEN 0 ELSE CHOOSE i \in opens : \A j \in opens : i <= j

ObjectThenBrace(t) ==
    /\ FirstOpen(t) # 0
    /\ objectEnd(t, FirstOpen(t)) # 0
    /\ \E j \in 1..Len(t) : j > objectEnd(t, FirstOpen(t)) /\ t[j] = "}"

FirstObjectSummary(t) ==
    LET found == summaryMember(t, FirstOpen(t) + 1, "")
    IN  IF found = "" THEN "Summary not available" ELSE found

C26_FirstObjectParsed ==
    \A r \in Requests :
        (/\ aiReply[r].kind = "raw"
         /\ aiResult[r].kind # "none"
         /\ ObjectThenBrace(aiReply[r].raw.body)) =>
            /\ aiResult[r].kind = "parsed"
            /\ aiResult[r].summary.body = FirstObjectSummary(aiReply[r].raw.body)

(***************************************************************************)
(* C25: the loading state of the clusters screen covers the whole of the   *)
(* processing: while a summarize request of the screen is in flight,       *)
(* isGeneratingSummary is true (the Summary button is disabled), and so no *)
(* second request is in flight with it.  It fails: the finally block of    *)
(* handleGenerateSummary clears the flag as soon as the confirmation is    *)
(* shown, before the request is sent.                                      *)
(***************************************************************************)
C25_LoadingCoversRequest ==
    /\ awaiting # {} => isGeneratingSummary
    /\ Cardinality(awaiting) <= 1

(***************************************************************************)
(* C28: every selected id is the id of a card of the expanded cluster, and *)
(* nothing is selected while no cluster is expanded.  It fails: closing    *)
(* the modal leaves the selection as it is, and the next cluster expanded  *)
(* shows a selection made in another.                                      *)
(***************************************************************************)
C28_SelectionInExpandedCluster ==
    \A i \in 1..Len(selectedBookmarks) :
        \E card \in ExpandedCards : card.id = selectedBookmarks[i]

(***************************************************************************)
(* C30: for a request answered 401 the response interceptor sends at most  *)
(* one refresh request, and then ends: the original request is sent at     *)
(* most once more; and when the call is rejected after a refresh request   *)
(* and without a replay, the stored tokens are cleared.  It fails: the     *)
(* refresh request goes through the same instance, so a 401 to it is       *)
(* itself taken as a request to retry, and a second refresh request is     *)
(* sent.                                                                   *)
(***************************************************************************)
ApiSends == Cardinality({i \in 1..Len(sentLog) : sentLog[i] # RefreshUrl})

C30_AtMostOneRefresh ==
    /\ RefreshCallsSent <= 1
    /\ ApiSends <= 2
    /\ (apiOutcome = "rejected" /\ RefreshCallsSent >= 1 /\ ApiSends = 1) =>
           ~tokensStored.refreshToken

=============================================================================
